---- MODULE Spec2Model ----
(***************************************************************************)
(* Model of the sauna playlist generator: the song classifier and the      *)
(* duration-constrained playlist builder of src/src/utils/spotify.ts, and  *)
(* the Home page's createPlaylist flow of src/src/pages/index.tsx, and     *)
(* the three API handlers of src/src/pages/api/spotify with the session    *)
(* token they read (the NextAuth jwt callback of user-playlists.ts).       *)
(*                                                                         *)
(* Numbers: energy, acousticness and instrumentalness are floating-point   *)
(* values in [0, 1] in the source; here they are counted in tenths, so     *)
(* the source's 0.5 is 5 and 0.6 is 6.  tempo is in BPM and duration_ms    *)
(* in milliseconds, as in the source; the explored inputs use small        *)
(* durations and targets, the concrete scenarios use real ones.            *)
(* The clock of the API model counts hours: the source's 3600 s is 1.      *)
(*                                                                         *)
(* A track object is a record with a ref field for its identity: two       *)
(* entries of a list are one object exactly when they are equal records    *)
(* (Array.prototype.includes compares object references).                  *)
(***************************************************************************)
EXTENDS Integers, Sequences, FiniteSets, TLC

VARIABLES
    \* one call of buildPlaylist
    songs,              \* the track list the caller hands over
    sessionType,        \* its sessionType argument
    targetDurationMs,   \* its targetDurationMs argument
    sorted,             \* its local sortedSongs
    playlist,           \* the list it returns
    pc,                 \* "input" before the call, "returned" after it
    \* one call of classifySong
    classifyArg,        \* its argument
    classifyResult,     \* its result, "none" before the call
    \* the Home component of pages/index.tsx
    step, isLoading, error, analyzedTracks, saunaSessionType,
    pending,            \* the request in flight: "none", "source-playlist", "create-playlist"
    posted,             \* the tracks array of the body of the create-playlist
                        \* request in flight, empty when none is
    playlistsPending,   \* a fetchPlaylists request is in flight
    homeResponse,       \* what came back for the pending request, "none" until then
    \* the session token and one request to an API handler
    now,                \* Date.now(), in hours
    jwt,                \* the JWT of the session cookie
    handler,            \* the handler serving the request, "none" between requests
    apc,                \* where the handler stands
    req,                \* the request: method and body
    token,              \* the handler's local token
    client,             \* the AccessToken object handed to SpotifyApi.withAccessToken
    calls,              \* the calls made to the catalog for this request, in order
    res,                \* the responses sent for this request, in order
    failure,            \* the error caught by the handler, if any
    offset,             \* source-playlist: let offset
    hasMoreTracks,      \* source-playlist: let hasMoreTracks
    allPlaylistTracks,  \* source-playlist: const allPlaylistTracks
    pages,              \* source-playlist: the pages returned so far
    allAudioFeatures,   \* source-playlist: const allAudioFeatures
    loopI,              \* the i of the batch loop of either handler
    \* one call of the jwt callback
    jwtCall,            \* the latest call: its token argument, its hour, what it did
    lastRefresh         \* how the latest refresh since sign-in ended: "none", "ok", "failed"

builderVars == <<songs, sessionType, targetDurationMs, sorted, playlist, pc>>
classifierVars == <<classifyArg, classifyResult>>
homeVars == <<step, isLoading, error, analyzedTracks, saunaSessionType, pending, posted,
              playlistsPending, homeResponse>>
apiVars == <<now, jwt, handler, apc, req, token, client, calls, res, failure, offset,
             hasMoreTracks, allPlaylistTracks, pages, allAudioFeatures, loopI>>
callbackVars == <<jwtCall, lastRefresh>>
vars == <<builderVars, classifierVars, homeVars, apiVars, callbackVars>>

\* ------------------------------------------------------------------ bounds
MaxSongs == 3       \* longest track list explored

\* ------------------------------------------------- src/src/utils/spotify.ts
SessionType == {"calm", "building"}

\* the default of the targetDurationMs parameter
defaultTargetDurationMs == 38 * 60 * 1000

\* classifySong with the tempo threshold taken inclusively
classifySong_inclusiveTempo(analysis) ==
    IF \/ analysis.tempo <= 100
       \/ analysis.energy < 5
       \/ analysis.acousticness > 6
       \/ analysis.instrumentalness > 5
    THEN "calm"
    ELSE "building"

classifySong(analysis) ==
    IF \/ analysis.tempo < 100
       \/ analysis.energy < 5
       \/ analysis.acousticness > 6
       \/ analysis.instrumentalness > 5
    THEN "calm"
    ELSE "building"

\* the filter left out
filteredSongs_keepAll(ss, st) == ss

\* songs.filter(song => classifySong(song) === sessionType)
filteredSongs(ss, st) == SelectSeq(ss, LAMBDA song : classifySong(song) = st)

\* the comparator without its session type branch
compareEnergy_ascending(a, b, st) == a.energy - b.energy

\* the comparator handed to sort
compareEnergy(a, b, st) ==
    IF st = "calm" THEN a.energy - b.energy ELSE b.energy - a.energy

\* Array.prototype.sort is stable: an element is placed after every element
\* that does not compare greater than it.
RECURSIVE insertSorted(_, _, _)
insertSorted(list, x, st) ==
    IF list = <<>> THEN <<x>>
    ELSE IF compareEnergy(Head(list), x, st) > 0 THEN <<x>> \o list
    ELSE <<Head(list)>> \o insertSorted(Tail(list), x, st)

RECURSIVE sortByEnergy(_, _, _)
sortByEnergy(done, rest, st) ==
    IF rest = <<>> THEN done
    ELSE sortByEnergy(insertSorted(done, Head(rest), st), Tail(rest), st)

sortedSongs(ss, st) == sortByEnergy(<<>>, filteredSongs(ss, st), st)

\* playlist.includes(s)
includes(pl, s) == \E k \in 1..Len(pl) : pl[k] = s

\* the search without its membership test
perfectFit_noMembership(list, pl, remainingDuration) ==
    LET fits == {j \in 1..Len(list) : list[j].duration_ms <= remainingDuration}
    IN IF fits = {} THEN 0
       ELSE CHOOSE j \in fits : \A k \in fits : j <= k

\* the search with a strict comparison of the duration
perfectFit_strict(list, pl, remainingDuration) ==
    LET fits == {j \in 1..Len(list) :
                    /\ list[j].duration_ms < remainingDuration
                    /\ ~includes(pl, list[j])}
    IN IF fits = {} THEN 0
       ELSE CHOOSE j \in fits : \A k \in fits : j <= k

\* the search without its duration test
perfectFit_anyUnused(list, pl, remainingDuration) ==
    LET fits == {j \in 1..Len(list) : ~includes(pl, list[j])}
    IN IF fits = {} THEN 0
       ELSE CHOOSE j \in fits : \A k \in fits : j <= k

\* sortedSongs.find(s => s.duration_ms <= remainingDuration && !playlist.includes(s))
\* gives the index of the first such element, 0 for undefined.
perfectFit(list, pl, remainingDuration) ==
    LET fits == {j \in 1..Len(list) :
                    /\ list[j].duration_ms <= remainingDuration
                    /\ ~includes(pl, list[j])}
    IN IF fits = {} THEN 0
       ELSE CHOOSE j \in fits : \A k \in fits : j <= k

\* the loop with the fallback search given the whole target as its budget
RECURSIVE packLoop_wholeTarget(_, _, _, _, _)
packLoop_wholeTarget(list, i, pl, currentDuration, target) ==
    IF i > Len(list) THEN pl
    ELSE LET song == list[i] IN
         IF currentDuration + song.duration_ms <= target
         THEN packLoop_wholeTarget(list, i + 1, Append(pl, song),
                                   currentDuration + song.duration_ms, target)
         ELSE LET fit == perfectFit(list, pl, target) IN
              IF fit # 0 THEN Append(pl, list[fit]) ELSE pl

\* the loop that skips an overflowing candidate and goes on
RECURSIVE packLoop_skipAndContinue(_, _, _, _, _)
packLoop_skipAndContinue(list, i, pl, currentDuration, target) ==
    IF i > Len(list) THEN pl
    ELSE LET song == list[i] IN
         IF currentDuration + song.duration_ms <= target
         THEN packLoop_skipAndContinue(list, i + 1, Append(pl, song),
                                       currentDuration + song.duration_ms, target)
         ELSE packLoop_skipAndContinue(list, i + 1, pl, currentDuration, target)

\* the loop with a strict comparison against the target
RECURSIVE packLoop_strictLess(_, _, _, _, _)
packLoop_strictLess(list, i, pl, currentDuration, target) ==
    IF i > Len(list) THEN pl
    ELSE LET song == list[i] IN
         IF currentDuration + song.duration_ms < target
         THEN packLoop_strictLess(list, i + 1, Append(pl, song),
                                  currentDuration + song.duration_ms, target)
         ELSE LET fit == perfectFit(list, pl, target - currentDuration) IN
              IF fit # 0 THEN Append(pl, list[fit]) ELSE pl

\* the loop that passes over a candidate whose duration_ms is not positive
RECURSIVE packLoop_positiveOnly(_, _, _, _, _)
packLoop_positiveOnly(list, i, pl, currentDuration, target) ==
    IF i > Len(list) THEN pl
    ELSE LET song == list[i] IN
         IF song.duration_ms <= 0
         THEN packLoop_positiveOnly(list, i + 1, pl, currentDuration, target)
         ELSE IF currentDuration + song.duration_ms <= target
         THEN packLoop_positiveOnly(list, i + 1, Append(pl, song),
                                    currentDuration + song.duration_ms, target)
         ELSE LET fit == perfectFit(list, pl, target - currentDuration) IN
              IF fit # 0 THEN Append(pl, list[fit]) ELSE pl

\* the for loop over sortedSongs, from its i-th element on
RECURSIVE packLoop(_, _, _, _, _)
packLoop(list, i, pl, currentDuration, target) ==
    IF i > Len(list) THEN pl
    ELSE LET song == list[i] IN
         IF currentDuration + song.duration_ms <= target
         THEN packLoop(list, i + 1, Append(pl, song),
                       currentDuration + song.duration_ms, target)
         ELSE LET fit == perfectFit(list, pl, target - currentDuration) IN
              IF fit # 0 THEN Append(pl, list[fit]) ELSE pl

buildPlaylist(ss, st, target) == packLoop(sortedSongs(ss, st), 1, <<>>, 0, target)

\* ---------------------------------------------------------------- inputs
\* Track identifiers are opaque: the n-th track of a list has an identifier
\* of an earlier track or the new identifier n.
TrackIds == 1..MaxSongs

\* explored values of duration_ms and of targetDurationMs
Durations == 0..2
Targets == 0..2

\* audio feature vectors on both sides of the classifier's thresholds
Features ==
    { [tempo |-> 99,  energy |-> 6, acousticness |-> 6, instrumentalness |-> 5],
      [tempo |-> 100, energy |-> 4, acousticness |-> 6, instrumentalness |-> 5],
      [tempo |-> 100, energy |-> 5, acousticness |-> 6, instrumentalness |-> 5],
      [tempo |-> 100, energy |-> 6, acousticness |-> 6, instrumentalness |-> 5] }

\* A SongAnalysis object.  ref is the object's identity, not a field of the
\* interface: two list entries are the same object exactly when they carry
\* the same ref.  name, artists, valence and uri are never read.
SongAnalysis(ref, id, d, f) ==
    [ref |-> ref, id |-> id, duration_ms |-> d, tempo |-> f.tempo, energy |-> f.energy,
     acousticness |-> f.acousticness, instrumentalness |-> f.instrumentalness]

\* the feature vectors classifySong is explored on
FeatureGrid ==
    [tempo : {99, 100, 101}, energy : {4, 5, 6},
     acousticness : {5, 6, 7}, instrumentalness : {4, 5, 6}]

idleAnalysis == [tempo |-> 0, energy |-> 0, acousticness |-> 0, instrumentalness |-> 0]

\* ---------------------------------------------------------- idle components
BuilderIdle ==
    /\ songs = <<>>
    /\ sessionType = "calm"
    /\ targetDurationMs = 0
    /\ sorted = <<>>
    /\ playlist = <<>>
    /\ pc = "idle"

ClassifierIdle ==
    /\ classifyArg = idleAnalysis
    /\ classifyResult = "none"

HomeIdle ==
    /\ step = "selectPlaylist"
    /\ isLoading = FALSE
    /\ error = "null"
    /\ analyzedTracks = <<>>
    /\ saunaSessionType = "relaxing"
    /\ pending = "idle"
    /\ posted = <<>>
    /\ playlistsPending = FALSE
    /\ homeResponse = "none"

\* no cookie: getToken gives null, every field undefined
noJwt == [accessToken |-> 0, refreshToken |-> 0, expiresAt |-> 0, error |-> "undefined"]

noRequest == [method |-> "none", name |-> "", tracksIsArray |-> FALSE, tracks |-> <<>>,
              playlistId |-> ""]

noClient == [access_token |-> 0, expires_in |-> 0, createdAt |-> 0]

noFailure == [stage |-> "none", message |-> {}]

\* the locals of a handler before it has run
HandlerFresh ==
    /\ token = noJwt
    /\ client = noClient
    /\ calls = <<>>
    /\ res = <<>>
    /\ failure = noFailure
    /\ offset = 0
    /\ hasMoreTracks = TRUE
    /\ allPlaylistTracks = <<>>
    /\ pages = <<>>
    /\ allAudioFeatures = <<>>
    /\ loopI = 0

ApiIdle ==
    /\ now = 0
    /\ jwt = noJwt
    /\ handler = "none"
    /\ apc = "parked"
    /\ req = noRequest
    /\ HandlerFresh

\* no response of the token endpoint
noResponse == [ok |-> FALSE, refresh_token |-> 0, expires_in |-> 0]

\* before the first call of the jwt callback
noCall == [kind |-> "none", token |-> noJwt, at |-> 0, attempts |-> 0, fetches |-> 0,
           response |-> noResponse]

CallbackIdle ==
    /\ jwtCall = noCall
    /\ lastRefresh = "none"

\* ------------------------------------------------- calls of buildPlaylist
Init ==
    /\ songs = <<>>
    /\ sessionType = "calm"
    /\ targetDurationMs = 0
    /\ sorted = <<>>
    /\ playlist = <<>>
    /\ pc = "input"
    /\ ClassifierIdle
    /\ HomeIdle
    /\ ApiIdle
    /\ CallbackIdle

\* the caller puts a new track object at the end of the list it will hand over
AddSong ==
    /\ pc = "input"
    /\ Len(songs) < MaxSongs
    /\ \E id \in {songs[k].id : k \in 1..Len(songs)} \cup {Len(songs) + 1},
          d \in Durations, f \in Features :
          songs' = Append(songs, SongAnalysis(Len(songs) + 1, id, d, f))
    /\ UNCHANGED <<sessionType, targetDurationMs, sorted, playlist, pc>>
    /\ UNCHANGED <<classifierVars, homeVars, apiVars, callbackVars>>

\* the caller puts an object that is already in the list at its end once more
AddSongAgain ==
    /\ pc = "input"
    /\ Len(songs) < MaxSongs
    /\ \E j \in 1..Len(songs) : songs' = Append(songs, songs[j])
    /\ UNCHANGED <<sessionType, targetDurationMs, sorted, playlist, pc>>
    /\ UNCHANGED <<classifierVars, homeVars, apiVars, callbackVars>>

\* the call with the sort applied to the caller's array instead of a copy
BuildPlaylist_sortsInput ==
    /\ pc = "input"
    /\ \E st \in SessionType, target \in Targets :
          /\ sessionType' = st
          /\ targetDurationMs' = target
          /\ songs' = sortByEnergy(<<>>, songs, st)
          /\ sorted' = sortedSongs(songs, st)
          /\ playlist' = buildPlaylist(songs, st, target)
    /\ pc' = "returned"
    /\ UNCHANGED <<classifierVars, homeVars, apiVars, callbackVars>>

\* one call buildPlaylist(songs, st, target)
BuildPlaylist ==
    /\ pc = "input"
    /\ \E st \in SessionType, target \in Targets :
          /\ sessionType' = st
          /\ targetDurationMs' = target
          /\ sorted' = sortedSongs(songs, st)
          /\ playlist' = buildPlaylist(songs, st, target)
    /\ pc' = "returned"
    /\ UNCHANGED songs
    /\ UNCHANGED <<classifierVars, homeVars, apiVars, callbackVars>>

Next == AddSong \/ AddSongAgain \/ BuildPlaylist

Spec == Init /\ [][Next]_vars

\* ------------------------- calls of buildPlaylist with the default target
\* explored values of duration_ms next to the default target: 15, 18 and 20
\* minutes (18 and 20 minutes fill the 38 minutes exactly)
LongDurations == {900000, 1080000, 1200000}

\* the caller puts a new track object of such a duration at the end of the list
AddLongSong ==
    /\ pc = "input"
    /\ Len(songs) < MaxSongs
    /\ \E id \in {songs[k].id : k \in 1..Len(songs)} \cup {Len(songs) + 1},
          d \in LongDurations, f \in Features :
          songs' = Append(songs, SongAnalysis(Len(songs) + 1, id, d, f))
    /\ UNCHANGED <<sessionType, targetDurationMs, sorted, playlist, pc>>
    /\ UNCHANGED <<classifierVars, homeVars, apiVars, callbackVars>>

\* one call buildPlaylist(songs, st), the third argument left out
BuildPlaylistDefault ==
    /\ pc = "input"
    /\ \E st \in SessionType :
          /\ sessionType' = st
          /\ sorted' = sortedSongs(songs, st)
          /\ playlist' = buildPlaylist(songs, st, defaultTargetDurationMs)
    /\ targetDurationMs' = defaultTargetDurationMs
    /\ pc' = "returned"
    /\ UNCHANGED songs
    /\ UNCHANGED <<classifierVars, homeVars, apiVars, callbackVars>>

NextDefault == AddLongSong \/ AddSongAgain \/ BuildPlaylistDefault

SpecDefault == Init /\ [][NextDefault]_vars

\* -------------------------------------------------- calls of classifySong
InitClassify ==
    /\ classifyArg \in FeatureGrid
    /\ classifyResult = "none"
    /\ BuilderIdle
    /\ HomeIdle
    /\ ApiIdle
    /\ CallbackIdle

ClassifySong ==
    /\ classifyResult = "none"
    /\ classifyResult' = classifySong(classifyArg)
    /\ UNCHANGED <<classifyArg, builderVars, homeVars, apiVars, callbackVars>>

NextClassify == ClassifySong

SpecClassify == InitClassify /\ [][NextClassify]_vars

\* ------------------------------------------- src/src/pages/index.tsx, Home
\* The component is modelled for a signed-in user who has selected a source
\* playlist.  One analyzePlaylist or createPlaylist request is in flight at
\* a time; fetchPlaylists, which the session effect starts, runs next to them.
MaxTracks == 3      \* longest analysed track list explored

SaunaSessionType == {"relaxing", "energizing", "balanced"}

\* audioFeatures of a track of the source-playlist response: absent, or a
\* vector that one or two of the session types accept
undefinedFeatures == [undefined |-> TRUE]

HomeFeatures ==
    { undefinedFeatures,
      [tempo |-> 99,  energy |-> 4, acousticness |-> 6, instrumentalness |-> 5],
      [tempo |-> 100, energy |-> 5, acousticness |-> 6, instrumentalness |-> 5],
      [tempo |-> 120, energy |-> 7, acousticness |-> 6, instrumentalness |-> 5] }

\* explored value of a response track's duration_ms: 20 minutes (the page
\* never reads the field)
HomeDurations == {1200000}

\* the track lists a source-playlist response can carry; the n-th track has
\* the identifier n
TrackLists ==
    UNION { { [i \in 1..n |-> [id |-> i, duration_ms |-> c[i][1], audioFeatures |-> c[i][2]]] :
                c \in [1..n -> HomeDurations \X HomeFeatures] } : n \in 0..MaxTracks }

\* the predicate with a track without audioFeatures let through by the
\* default branch
matchesSaunaType_undefinedIsBalanced(track, type) ==
    CASE type = "relaxing" ->
           /\ track.audioFeatures # undefinedFeatures
           /\ track.audioFeatures.energy < 5 /\ track.audioFeatures.tempo < 100
      [] type = "energizing" ->
           /\ track.audioFeatures # undefinedFeatures
           /\ track.audioFeatures.energy > 6 /\ track.audioFeatures.tempo > 110
      [] OTHER ->
           \/ track.audioFeatures = undefinedFeatures
           \/ /\ track.audioFeatures.energy >= 4 /\ track.audioFeatures.energy <= 7
              /\ track.audioFeatures.tempo >= 90 /\ track.audioFeatures.tempo <= 120

\* the predicate of each filter of filterTracksBySaunaType
matchesSaunaType(track, type) ==
    /\ track.audioFeatures # undefinedFeatures
    /\ CASE type = "relaxing" ->
              track.audioFeatures.energy < 5 /\ track.audioFeatures.tempo < 100
         [] type = "energizing" ->
              track.audioFeatures.energy > 6 /\ track.audioFeatures.tempo > 110
         [] OTHER ->
              /\ track.audioFeatures.energy >= 4 /\ track.audioFeatures.energy <= 7
              /\ track.audioFeatures.tempo >= 90 /\ track.audioFeatures.tempo <= 120

filterTracksBySaunaType(tracks, type) ==
    SelectSeq(tracks, LAMBDA track : matchesSaunaType(track, type))

InitHome ==
    /\ step = "selectPlaylist"
    /\ isLoading = FALSE
    /\ error = "null"
    /\ analyzedTracks = <<>>
    /\ saunaSessionType = "relaxing"
    /\ pending = "none"
    /\ posted = <<>>
    /\ playlistsPending = FALSE
    /\ homeResponse = "none"
    /\ BuilderIdle
    /\ ClassifierIdle
    /\ ApiIdle
    /\ CallbackIdle

\* what the fetch of a request can come back with: a response that is ok or
\* not, or a rejection
Responses == {"ok", "notOk", "rejected"}

\* the fetch of analyzePlaylist or createPlaylist settles
Respond ==
    /\ pending # "none"
    /\ homeResponse = "none"
    /\ homeResponse' \in Responses
    /\ UNCHANGED <<step, isLoading, error, analyzedTracks, saunaSessionType, pending, posted,
                   playlistsPending>>
    /\ UNCHANGED <<builderVars, classifierVars, apiVars, callbackVars>>

\* fetchPlaylists up to its fetch: run by the effect when the session data
\* change, at any step and next to another request, or by the Refresh button
FetchPlaylists ==
    /\ ~playlistsPending
    /\ isLoading' = TRUE
    /\ error' = "null"
    /\ playlistsPending' = TRUE
    /\ UNCHANGED <<step, analyzedTracks, saunaSessionType, pending, posted, homeResponse>>
    /\ UNCHANGED <<builderVars, classifierVars, apiVars, callbackVars>>

\* fetchPlaylists after an ok response (the response to this request is not
\* kept: no step depends on it)
FetchPlaylistsOk ==
    /\ playlistsPending
    /\ isLoading' = FALSE
    /\ playlistsPending' = FALSE
    /\ UNCHANGED <<step, error, analyzedTracks, saunaSessionType, pending, posted, homeResponse>>
    /\ UNCHANGED <<builderVars, classifierVars, apiVars, callbackVars>>

\* fetchPlaylists after a request that failed
FetchPlaylistsFailed ==
    /\ playlistsPending
    /\ error' = "Failed to load playlists. Please try again."
    /\ isLoading' = FALSE
    /\ playlistsPending' = FALSE
    /\ UNCHANGED <<step, analyzedTracks, saunaSessionType, pending, posted, homeResponse>>
    /\ UNCHANGED <<builderVars, classifierVars, apiVars, callbackVars>>

\* analyzePlaylist up to its fetch
AnalyzePlaylist ==
    /\ step = "selectPlaylist"
    /\ pending = "none"
    /\ isLoading' = TRUE
    /\ error' = "null"
    /\ pending' = "source-playlist"
    /\ UNCHANGED <<step, analyzedTracks, saunaSessionType, posted, playlistsPending,
                   homeResponse>>
    /\ UNCHANGED <<builderVars, classifierVars, apiVars, callbackVars>>

\* analyzePlaylist after an ok response
AnalyzePlaylistOk ==
    /\ pending = "source-playlist"
    /\ homeResponse = "ok"
    /\ \E tracks \in TrackLists : analyzedTracks' = tracks
    /\ step' = "analyze"
    /\ isLoading' = FALSE
    /\ pending' = "none"
    /\ homeResponse' = "none"
    /\ UNCHANGED <<error, saunaSessionType, posted, playlistsPending>>
    /\ UNCHANGED <<builderVars, classifierVars, apiVars, callbackVars>>

\* analyzePlaylist with the catch block setting the step as well
AnalyzePlaylistFailed_setsStep ==
    /\ pending = "source-playlist"
    /\ homeResponse # "none"
    /\ error' = "Failed to analyze playlist. Please try again."
    /\ step' = "analyze"
    /\ isLoading' = FALSE
    /\ pending' = "none"
    /\ homeResponse' = "none"
    /\ UNCHANGED <<analyzedTracks, saunaSessionType, posted, playlistsPending>>
    /\ UNCHANGED <<builderVars, classifierVars, apiVars, callbackVars>>

\* analyzePlaylist after a response that is not ok, a rejected fetch, or an
\* ok response whose body does not parse
AnalyzePlaylistFailed ==
    /\ pending = "source-playlist"
    /\ homeResponse # "none"
    /\ error' = "Failed to analyze playlist. Please try again."
    /\ isLoading' = FALSE
    /\ pending' = "none"
    /\ homeResponse' = "none"
    /\ UNCHANGED <<step, analyzedTracks, saunaSessionType, posted, playlistsPending>>
    /\ UNCHANGED <<builderVars, classifierVars, apiVars, callbackVars>>

\* the select's onChange
SetSaunaSessionType ==
    /\ step = "analyze"
    /\ pending = "none"
    /\ \E type \in SaunaSessionType : saunaSessionType' = type
    /\ UNCHANGED <<step, isLoading, error, analyzedTracks, pending, posted,
                   playlistsPending, homeResponse>>
    /\ UNCHANGED <<builderVars, classifierVars, apiVars, callbackVars>>

\* createPlaylist up to its fetch: the body carries the ids of the filtered tracks
CreatePlaylist ==
    /\ step = "analyze"
    /\ pending = "none"
    /\ Len(analyzedTracks) # 0
    /\ isLoading' = TRUE
    /\ error' = "null"
    /\ LET filteredTracks == filterTracksBySaunaType(analyzedTracks, saunaSessionType)
       IN posted' = [k \in 1..Len(filteredTracks) |-> filteredTracks[k].id]
    /\ pending' = "create-playlist"
    /\ UNCHANGED <<step, analyzedTracks, saunaSessionType, playlistsPending, homeResponse>>
    /\ UNCHANGED <<builderVars, classifierVars, apiVars, callbackVars>>

\* createPlaylist after an ok response
CreatePlaylistOk ==
    /\ pending = "create-playlist"
    /\ homeResponse = "ok"
    /\ step' = "results"
    /\ isLoading' = FALSE
    /\ pending' = "none"
    /\ homeResponse' = "none"
    /\ posted' = <<>>
    /\ UNCHANGED <<error, analyzedTracks, saunaSessionType, playlistsPending>>
    /\ UNCHANGED <<builderVars, classifierVars, apiVars, callbackVars>>

\* createPlaylist after a response that is not ok, or a rejected fetch
CreatePlaylistFailed ==
    /\ pending = "create-playlist"
    /\ homeResponse \in {"notOk", "rejected"}
    /\ error' = "Failed to create playlist. Please try again."
    /\ isLoading' = FALSE
    /\ pending' = "none"
    /\ homeResponse' = "none"
    /\ posted' = <<>>
    /\ UNCHANGED <<step, analyzedTracks, saunaSessionType, playlistsPending>>
    /\ UNCHANGED <<builderVars, classifierVars, apiVars, callbackVars>>

\* the Back and Create Another Playlist buttons
BackToSelectPlaylist ==
    /\ step \in {"analyze", "results"}
    /\ pending = "none"
    /\ step' = "selectPlaylist"
    /\ UNCHANGED <<isLoading, error, analyzedTracks, saunaSessionType, pending, posted,
                   playlistsPending, homeResponse>>
    /\ UNCHANGED <<builderVars, classifierVars, apiVars, callbackVars>>

NextHome ==
    \/ Respond
    \/ FetchPlaylists
    \/ FetchPlaylistsOk
    \/ FetchPlaylistsFailed
    \/ AnalyzePlaylist
    \/ AnalyzePlaylistOk
    \/ AnalyzePlaylistFailed
    \/ SetSaunaSessionType
    \/ CreatePlaylist
    \/ CreatePlaylistOk
    \/ CreatePlaylistFailed
    \/ BackToSelectPlaylist

SpecHome == InitHome /\ [][NextHome]_vars

\* ------------------------ src/src/pages/api/spotify: the session token
MaxNow == 2         \* last hour of the clock

\* expires_in of the identity provider's tokens, in hours
ExpiresIn == {1}

\* account.refresh_token at sign-in (0: none)
AccountRefreshTokens == {0, 1}

\* the responses of the token endpoint to a refresh; refresh_token 0: none issued
RefreshResponses ==
    { [ok |-> o, refresh_token |-> r, expires_in |-> e] :
        o \in BOOLEAN, r \in {0, 2}, e \in ExpiresIn }

\* refreshAccessToken taking refresh_token from the response whether or not
\* one was issued
refreshAccessToken_dropsRefreshToken(t, response) ==
    IF t.refreshToken = 0 \/ ~response.ok
    THEN [t EXCEPT !.error = "RefreshAccessTokenError"]
    ELSE [accessToken |-> now + 1,
          expiresAt |-> now + response.expires_in,
          refreshToken |-> response.refresh_token,
          error |-> "undefined"]

\* refreshAccessToken with the outcome of its fetch; the provider's new
\* access token is named by the hour of its issue
refreshAccessToken(t, response) ==
    IF t.refreshToken = 0 \/ ~response.ok
    THEN [t EXCEPT !.error = "RefreshAccessTokenError"]
    ELSE [accessToken |-> now + 1,
          expiresAt |-> now + response.expires_in,
          refreshToken |-> IF response.refresh_token # 0
                           THEN response.refresh_token ELSE t.refreshToken,
          error |-> "undefined"]

\* the test of the jwt callback: the token has not expired yet
notExpiredYet(t) == t.expiresAt # 0 /\ now < t.expiresAt

\* what a finished or not yet started request leaves of the handler's locals
ResetLocals ==
    /\ token' = noJwt
    /\ client' = noClient
    /\ calls' = <<>>
    /\ res' = <<>>
    /\ failure' = noFailure
    /\ offset' = 0
    /\ hasMoreTracks' = TRUE
    /\ allPlaylistTracks' = <<>>
    /\ pages' = <<>>
    /\ allAudioFeatures' = <<>>
    /\ loopI' = 0

handlerLocals == <<token, client, calls, res, failure, offset, hasMoreTracks,
                   allPlaylistTracks, pages, allAudioFeatures, loopI>>

InitApi ==
    /\ now = 0
    /\ jwt = noJwt
    /\ handler = "none"
    /\ apc = "idle"
    /\ req = noRequest
    /\ HandlerFresh
    /\ BuilderIdle
    /\ ClassifierIdle
    /\ HomeIdle
    /\ CallbackIdle

\* an hour passes: between two requests, or while a handler waits for the
\* catalog (before a handler's first step and after its response the hour
\* makes no difference to the request)
Tick ==
    /\ apc \notin {"parked", "start", "done"}
    /\ now < MaxNow
    /\ now' = now + 1
    /\ UNCHANGED <<jwt, handler, apc, req, handlerLocals>>
    /\ UNCHANGED <<builderVars, classifierVars, homeVars, callbackVars>>

\* the jwt callback at sign-in (account && user)
SignIn ==
    /\ apc = "idle"
    /\ \E rt \in AccountRefreshTokens, e \in ExpiresIn :
          jwt' = [accessToken |-> now + 1, refreshToken |-> rt,
                  expiresAt |-> now + e, error |-> "undefined"]
    /\ UNCHANGED <<now, handler, apc, req, handlerLocals>>
    /\ UNCHANGED <<builderVars, classifierVars, homeVars, callbackVars>>

\* the jwt callback on a later session read
JwtCallback ==
    /\ apc = "idle"
    /\ jwt # noJwt
    /\ IF notExpiredYet(jwt)
       THEN jwt' = jwt
       ELSE \E response \in RefreshResponses : jwt' = refreshAccessToken(jwt, response)
    /\ UNCHANGED <<now, handler, apc, req, handlerLocals>>
    /\ UNCHANGED <<builderVars, classifierVars, homeVars, callbackVars>>

\* ------------------------------ src/src/pages/api/spotify: the handlers
Handlers == {"create-playlist", "source-playlist", "user-playlists"}

\* the batch size of the addItemsToPlaylist loop
batchSize == 100

\* the requests to create-playlist with a tracks array of the given lengths;
\* the k-th submitted track identifier is k
CreateRequests(lengths) ==
    { [method |-> m, name |-> n, tracksIsArray |-> a,
       tracks |-> IF a THEN [k \in 1..len |-> k] ELSE <<>>, playlistId |-> ""] :
        m \in {"GET", "POST"}, n \in {"", "Sauna"}, a \in BOOLEAN, len \in lengths }

\* the requests explored next to the session token: short track arrays
Requests(h) ==
    CASE h = "create-playlist" -> CreateRequests(0..2)
      [] h = "source-playlist" ->
           { [method |-> m, name |-> "", tracksIsArray |-> FALSE, tracks |-> <<>>,
              playlistId |-> p] : m \in {"GET", "POST"}, p \in {"", "playlist"} }
      [] OTHER ->
           { [method |-> m, name |-> "", tracksIsArray |-> FALSE, tracks |-> <<>>,
              playlistId |-> ""] : m \in {"GET", "POST"} }

\* a request arrives
Request ==
    /\ apc = "idle"
    /\ \E h \in Handlers : \E r \in Requests(h) :
          /\ handler' = h
          /\ req' = r
    /\ apc' = "start"
    /\ UNCHANGED <<now, jwt, handlerLocals>>
    /\ UNCHANGED <<builderVars, classifierVars, homeVars, callbackVars>>

\* the request is over
Close ==
    /\ apc = "done"
    /\ apc' = "idle"
    /\ handler' = "none"
    /\ req' = noRequest
    /\ ResetLocals
    /\ UNCHANGED <<now, jwt>>
    /\ UNCHANGED <<builderVars, classifierVars, homeVars, callbackVars>>

\* the messages of the errors the catalog client throws, each given by the
\* parts the handlers look for in it
Messages == {{"403"}, {"Bad OAuth"}, {}}

\* expires_in as create-playlist and source-playlist compute it
defaultExpiresIn == 1

expiresIn(t) ==
    IF t.expiresAt # 0
    THEN IF t.expiresAt - now > 0 THEN t.expiresAt - now ELSE 0
    ELSE defaultExpiresIn

\* the bearer token of the client is past its expiry
TokenExpired == now >= token.expiresAt

\* whether a call goes out with an expired token: the client sends the token
\* it was handed as long as the handed expires_in has not run out; after
\* that the library may have replaced it by then
SentExpired ==
    {TokenExpired} \cup
        (IF now >= client.createdAt + client.expires_in THEN {FALSE} ELSE {})

\* one call to the catalog
CatalogCall(api, arg) ==
    \E e \in SentExpired :
        calls' = Append(calls, [api |-> api, arg |-> arg, expired |-> e])

\* res.status(status).json(...) and return
Reply(status, kind, tracks) ==
    /\ res' = Append(res, [status |-> status, kind |-> kind, tracks |-> tracks])
    /\ apc' = "done"

\* a catch block that answers with the given status
Caught(stage, message, status) ==
    /\ failure' = [stage |-> stage, message |-> message]
    /\ Reply(status, "error", <<>>)

\* Array.prototype.slice(start, end), indices from 0
slice_inclusiveEnd(arr, start, end) ==
    SubSeq(arr, start + 1, IF end + 1 < Len(arr) THEN end + 1 ELSE Len(arr))

slice(arr, start, end) ==
    SubSeq(arr, start + 1, IF end < Len(arr) THEN end ELSE Len(arr))

\* tracks.map(trackId => `spotify:track:${trackId}`)
trackUris(tracks) == [k \in 1..Len(tracks) |-> <<"spotify:track:", tracks[k]>>]

\* the status of create-playlist's catch block
createStatus(message) == IF "403" \in message THEN 403 ELSE 500

\* the body passes the test of create-playlist
validBody(r) == r.name # "" /\ r.tracksIsArray /\ Len(r.tracks) # 0

\* create-playlist with the body tested only after the catalog calls
CreateStart_noBodyTest ==
    /\ handler = "create-playlist"
    /\ apc = "start"
    /\ \/ /\ req.method # "POST"
          /\ Reply(405, "error", <<>>)
          /\ UNCHANGED <<token, client, failure>>
       \/ /\ req.method = "POST"
          /\ jwt.accessToken = 0
          /\ token' = jwt
          /\ Reply(401, "error", <<>>)
          /\ UNCHANGED <<client, failure>>
       \/ /\ req.method = "POST"
          /\ jwt.accessToken # 0
          /\ token' = jwt
          /\ client' = [access_token |-> jwt.accessToken, expires_in |-> expiresIn(jwt),
                        createdAt |-> now]
          /\ apc' = "profile"
          /\ UNCHANGED <<res, failure>>
    /\ UNCHANGED <<now, jwt, handler, req, calls, offset, hasMoreTracks,
                   allPlaylistTracks, pages, allAudioFeatures, loopI>>
    /\ UNCHANGED <<builderVars, classifierVars, homeVars, callbackVars>>

\* create-playlist up to its first call to the catalog
CreateStart ==
    /\ handler = "create-playlist"
    /\ apc = "start"
    /\ \/ /\ req.method # "POST"
          /\ Reply(405, "error", <<>>)
          /\ UNCHANGED <<token, client, failure>>
       \/ /\ req.method = "POST"
          /\ \E m \in Messages : Caught("getToken", m, createStatus(m))
          /\ UNCHANGED <<token, client>>
       \/ /\ req.method = "POST"
          /\ jwt.accessToken = 0
          /\ token' = jwt
          /\ Reply(401, "error", <<>>)
          /\ UNCHANGED <<client, failure>>
       \/ /\ req.method = "POST"
          /\ jwt.accessToken # 0
          /\ ~validBody(req)
          /\ token' = jwt
          /\ Reply(400, "error", <<>>)
          /\ UNCHANGED <<client, failure>>
       \/ /\ req.method = "POST"
          /\ jwt.accessToken # 0
          /\ validBody(req)
          /\ token' = jwt
          /\ client' = [access_token |-> jwt.accessToken, expires_in |-> expiresIn(jwt),
                        createdAt |-> now]
          /\ apc' = "profile"
          /\ UNCHANGED <<res, failure>>
    /\ UNCHANGED <<now, jwt, handler, req, calls, offset, hasMoreTracks,
                   allPlaylistTracks, pages, allAudioFeatures, loopI>>
    /\ UNCHANGED <<builderVars, classifierVars, homeVars, callbackVars>>

\* await spotify.currentUser.profile()
CreateProfile ==
    /\ handler = "create-playlist"
    /\ apc = "profile"
    /\ CatalogCall("currentUser.profile", <<>>)
    /\ \/ /\ apc' = "createPlaylist"
          /\ UNCHANGED <<res, failure>>
       \/ \E m \in Messages : Caught("profile", m, createStatus(m))
    /\ UNCHANGED <<now, jwt, handler, req, token, client, offset, hasMoreTracks,
                   allPlaylistTracks, pages, allAudioFeatures, loopI>>
    /\ UNCHANGED <<builderVars, classifierVars, homeVars, callbackVars>>

\* await spotify.playlists.createPlaylist(...)
CreateNewPlaylist ==
    /\ handler = "create-playlist"
    /\ apc = "createPlaylist"
    /\ CatalogCall("playlists.createPlaylist", <<req.name>>)
    /\ \/ /\ apc' = "addItems"
          /\ UNCHANGED <<res, failure>>
       \/ \E m \in Messages : Caught("createPlaylist", m, createStatus(m))
    /\ UNCHANGED <<now, jwt, handler, req, token, client, offset, hasMoreTracks,
                   allPlaylistTracks, pages, allAudioFeatures, loopI>>
    /\ UNCHANGED <<builderVars, classifierVars, homeVars, callbackVars>>

\* one turn of the loop: await spotify.playlists.addItemsToPlaylist(playlist.id, batch);
\* after the last turn the 200 response
CreateAddItems ==
    /\ handler = "create-playlist"
    /\ apc = "addItems"
    /\ loopI < Len(trackUris(req.tracks))
    /\ CatalogCall("playlists.addItemsToPlaylist",
                   slice(trackUris(req.tracks), loopI, loopI + batchSize))
    /\ \/ /\ loopI' = loopI + batchSize
          /\ IF loopI + batchSize < Len(trackUris(req.tracks))
             THEN apc' = "addItems" /\ UNCHANGED res
             ELSE Reply(200, "playlist", <<>>)
          /\ UNCHANGED failure
       \/ /\ \E m \in Messages : Caught("addItems", m, createStatus(m))
          /\ UNCHANGED loopI
    /\ UNCHANGED <<now, jwt, handler, req, token, client, offset, hasMoreTracks,
                   allPlaylistTracks, pages, allAudioFeatures>>
    /\ UNCHANGED <<builderVars, classifierVars, homeVars, callbackVars>>

\* ---- source-playlist
MaxPages == 3       \* the playlist of the catalog has at most this many pages

\* const limit = 50
limit == 50

\* the batch size of the audio-features loop
featuresBatchSize == 100

\* the status of source-playlist's catch blocks around the audio-features
\* call and around the whole handler
sourceStatus(message) ==
    IF "403" \in message \/ "Bad OAuth" \in message THEN 403 ELSE 500

\* an item whose track is null or has no id
nullTrack == [id |-> 0]

\* the item counts of a page explored (a page has up to limit items)
PageCounts == {0, 1, 2}

\* a page of getPlaylistItems: the k-th item of the page at offset offs is
\* the track offs + k, or (the second item) an item without a track
Page(offs, count, nullSecond, next) ==
    [offset |-> offs,
     items |-> [k \in 1..count |->
                  [track |-> IF nullSecond /\ k = 2 THEN nullTrack ELSE [id |-> offs + k]]],
     next |-> next]

\* the pages the catalog can return for the next request
NextPages ==
    { Page(offset, count, nullSecond, next) :
        count \in PageCounts, nullSecond \in BOOLEAN,
        next \in IF Len(pages) + 1 >= MaxPages THEN {FALSE} ELSE BOOLEAN }

\* allPlaylistTracks.map(item => item.track).filter(track => !!track?.id)
validTracks(items) ==
    SelectSeq([k \in 1..Len(items) |-> items[k].track], LAMBDA track : track.id # 0)

trackIds(items) == [k \in 1..Len(validTracks(items)) |-> validTracks(items)[k].id]

\* the loop goes on after a page that is not empty
hasNextPage_always(playlistTracks) == TRUE

hasNextPage(playlistTracks) == playlistTracks.next

\* a null entry of the audio-features result
nullFeatures == [id |-> 0]

\* the results of tracks.audioFeatures(batch) explored: a vector for every
\* id, or none for the ids at the odd places of the batch
FeaturePatterns == {"all", "oddNull"}

featuresResult(batch, pattern) ==
    [k \in 1..Len(batch) |->
       IF pattern = "oddNull" /\ k % 2 = 1 THEN nullFeatures ELSE [id |-> batch[k]]]

\* allAudioFeatures.find(f => f.id === id)
findFeatures(features, id) ==
    IF \E k \in 1..Len(features) : features[k].id = id
    THEN features[CHOOSE k \in 1..Len(features) :
                    features[k].id = id /\ \A j \in 1..k - 1 : features[j].id # id]
    ELSE undefinedFeatures

tracksWithFeatures(valid, features) ==
    [k \in 1..Len(valid) |->
       [id |-> valid[k].id, audioFeatures |-> findFeatures(features, valid[k].id)]]

\* source-playlist up to its first call to the catalog
SourceStart ==
    /\ handler = "source-playlist"
    /\ apc = "start"
    /\ \/ /\ req.method # "POST"
          /\ Reply(405, "error", <<>>)
          /\ UNCHANGED <<token, client, failure>>
       \/ /\ req.method = "POST"
          /\ \E m \in Messages : Caught("getToken", m, sourceStatus(m))
          /\ UNCHANGED <<token, client>>
       \/ /\ req.method = "POST"
          /\ jwt.accessToken = 0
          /\ token' = jwt
          /\ Reply(401, "error", <<>>)
          /\ UNCHANGED <<client, failure>>
       \/ /\ req.method = "POST"
          /\ jwt.accessToken # 0
          /\ req.playlistId = ""
          /\ token' = jwt
          /\ Reply(400, "error", <<>>)
          /\ UNCHANGED <<client, failure>>
       \/ /\ req.method = "POST"
          /\ jwt.accessToken # 0
          /\ req.playlistId # ""
          /\ token' = jwt
          /\ client' = [access_token |-> jwt.accessToken, expires_in |-> expiresIn(jwt),
                        createdAt |-> now]
          /\ apc' = "page"
          /\ UNCHANGED <<res, failure>>
    /\ UNCHANGED <<now, jwt, handler, req, calls, offset, hasMoreTracks,
                   allPlaylistTracks, pages, allAudioFeatures, loopI>>
    /\ UNCHANGED <<builderVars, classifierVars, homeVars, callbackVars>>

\* one turn of the while loop: await getPlaylistItems(playlistId, undefined,
\* undefined, limit, offset); after the last turn the code up to the first
\* audio-features call
SourcePage ==
    /\ handler = "source-playlist"
    /\ apc = "page"
    /\ hasMoreTracks
    /\ CatalogCall("playlists.getPlaylistItems", <<limit, offset>>)
    /\ \/ /\ \E m \in Messages :
                /\ failure' = [stage |-> "pagination", message |-> m]
                /\ Reply(500, "error", <<>>)
          /\ UNCHANGED <<offset, hasMoreTracks, allPlaylistTracks, pages>>
       \/ /\ \E playlistTracks \in NextPages :
                LET empty == Len(playlistTracks.items) = 0
                    collected == IF empty THEN allPlaylistTracks
                                 ELSE allPlaylistTracks \o playlistTracks.items
                    more == ~empty /\ hasNextPage(playlistTracks)
                IN  /\ pages' = Append(pages, playlistTracks)
                    /\ allPlaylistTracks' = collected
                    /\ offset' = IF empty THEN offset ELSE offset + limit
                    /\ hasMoreTracks' = more
                    /\ IF more
                       THEN apc' = "page" /\ UNCHANGED res
                       ELSE IF Len(trackIds(collected)) = 0
                            THEN Reply(200, "tracks", <<>>)
                            ELSE apc' = "features" /\ UNCHANGED res
          /\ UNCHANGED failure
    /\ UNCHANGED <<now, jwt, handler, req, token, client, allAudioFeatures, loopI>>
    /\ UNCHANGED <<builderVars, classifierVars, homeVars, callbackVars>>

\* one turn of the for loop: await initialSpotify.tracks.audioFeatures(batch);
\* after the last turn the join and the 200 response
SourceFeatures ==
    /\ handler = "source-playlist"
    /\ apc = "features"
    /\ loopI < Len(trackIds(allPlaylistTracks))
    /\ LET batch == slice(trackIds(allPlaylistTracks), loopI, loopI + featuresBatchSize)
       IN  /\ CatalogCall("tracks.audioFeatures", batch)
           /\ \/ /\ \E pattern \in FeaturePatterns :
                      LET validFeatures == SelectSeq(featuresResult(batch, pattern),
                                                     LAMBDA f : f # nullFeatures)
                          features == allAudioFeatures \o validFeatures
                      IN  /\ allAudioFeatures' = features
                          /\ IF loopI + featuresBatchSize < Len(trackIds(allPlaylistTracks))
                             THEN apc' = "features" /\ UNCHANGED res
                             ELSE Reply(200, "tracks",
                                        tracksWithFeatures(validTracks(allPlaylistTracks),
                                                           features))
                 /\ loopI' = loopI + featuresBatchSize
                 /\ UNCHANGED failure
              \/ /\ \E m \in Messages : Caught("audio-features", m, sourceStatus(m))
                 /\ UNCHANGED <<allAudioFeatures, loopI>>
    /\ UNCHANGED <<now, jwt, handler, req, token, client, offset, hasMoreTracks,
                   allPlaylistTracks, pages>>
    /\ UNCHANGED <<builderVars, classifierVars, homeVars, callbackVars>>

\* ---- user-playlists
\* user-playlists up to its call to the catalog
UserStart ==
    /\ handler = "user-playlists"
    /\ apc = "start"
    /\ \/ /\ req.method # "GET"
          /\ Reply(405, "error", <<>>)
          /\ UNCHANGED <<token, client, failure>>
       \/ /\ req.method = "GET"
          /\ \E m \in Messages : Caught("getToken", m, 500)
          /\ UNCHANGED <<token, client>>
       \/ /\ req.method = "GET"
          /\ jwt.accessToken = 0
          /\ token' = jwt
          /\ Reply(401, "error", <<>>)
          /\ UNCHANGED <<client, failure>>
       \/ /\ req.method = "GET"
          /\ jwt.accessToken # 0
          /\ token' = jwt
          /\ client' = [access_token |-> jwt.accessToken, expires_in |-> defaultExpiresIn,
                        createdAt |-> now]
          /\ apc' = "playlists"
          /\ UNCHANGED <<res, failure>>
    /\ UNCHANGED <<now, jwt, handler, req, calls, offset, hasMoreTracks,
                   allPlaylistTracks, pages, allAudioFeatures, loopI>>
    /\ UNCHANGED <<builderVars, classifierVars, homeVars, callbackVars>>

\* await spotify.currentUser.playlists.playlists(50, 0)
UserPlaylists ==
    /\ handler = "user-playlists"
    /\ apc = "playlists"
    /\ CatalogCall("currentUser.playlists.playlists", <<50, 0>>)
    /\ \/ /\ Reply(200, "playlists", <<>>)
          /\ UNCHANGED failure
       \/ \E m \in Messages : Caught("playlists", m, 500)
    /\ UNCHANGED <<now, jwt, handler, req, token, client, offset, hasMoreTracks,
                   allPlaylistTracks, pages, allAudioFeatures, loopI>>
    /\ UNCHANGED <<builderVars, classifierVars, homeVars, callbackVars>>

\* ------------------- create-playlist with track arrays of several batches
MaxSubmitted == 201     \* longest submitted tracks array

\* the session token of a signed-in user, not expired
signedInJwt == [accessToken |-> 1, refreshToken |-> 1, expiresAt |-> 1, error |-> "undefined"]

InitBatches ==
    /\ now = 0
    /\ jwt = signedInJwt
    /\ handler = "none"
    /\ apc = "idle"
    /\ req = noRequest
    /\ HandlerFresh
    /\ BuilderIdle
    /\ ClassifierIdle
    /\ HomeIdle
    /\ CallbackIdle

\* a request to create-playlist arrives
RequestCreate ==
    /\ apc = "idle"
    /\ handler' = "create-playlist"
    /\ \E r \in CreateRequests(0..MaxSubmitted) : req' = r
    /\ apc' = "start"
    /\ UNCHANGED <<now, jwt, handlerLocals>>
    /\ UNCHANGED <<builderVars, classifierVars, homeVars, callbackVars>>

NextBatches ==
    \/ RequestCreate
    \/ Close
    \/ CreateStart
    \/ CreateProfile
    \/ CreateNewPlaylist
    \/ CreateAddItems

SpecBatches == InitBatches /\ [][NextBatches]_vars

\* ------------------------------- the session token and the three handlers
NextApi ==
    \/ Tick
    \/ SignIn
    \/ JwtCallback
    \/ Request
    \/ Close
    \/ CreateStart
    \/ CreateProfile
    \/ CreateNewPlaylist
    \/ CreateAddItems
    \/ SourceStart
    \/ SourcePage
    \/ SourceFeatures
    \/ UserStart
    \/ UserPlaylists

SpecApi == InitApi /\ [][NextApi]_vars

\* ------------------------------------------- calls of the jwt callback
InitJwt ==
    /\ now = 0
    /\ jwt = noJwt
    /\ handler = "none"
    /\ apc = "idle"
    /\ req = noRequest
    /\ HandlerFresh
    /\ CallbackIdle
    /\ BuilderIdle
    /\ ClassifierIdle
    /\ HomeIdle

\* hours from sign-in to account.expires_at
AccountExpiresIn == {1, 2}

\* one call jwt({token, account, user}) at sign-in; NextAuth passes a token
\* without accessToken, refreshToken, expiresAt and error
CallJwtAtSignIn ==
    /\ apc = "idle"
    /\ \E rt \in AccountRefreshTokens, e \in AccountExpiresIn :
          jwt' = [accessToken |-> now + 1, refreshToken |-> rt,
                  expiresAt |-> now + e, error |-> "undefined"]
    /\ jwtCall' = [kind |-> "signIn", token |-> noJwt, at |-> now, attempts |-> 0,
                   fetches |-> 0, response |-> noResponse]
    /\ lastRefresh' = "none"
    /\ UNCHANGED <<now, handler, apc, req, handlerLocals>>
    /\ UNCHANGED <<builderVars, classifierVars, homeVars>>

\* one call jwt({token}) on a later session read; refreshAccessToken sends
\* its request only for a token with a refreshToken, and the refresh has
\* failed when there was none or the response was not ok
CallJwt ==
    /\ apc = "idle"
    /\ jwt # noJwt
    /\ IF notExpiredYet(jwt)
       THEN /\ jwt' = jwt
            /\ jwtCall' = [kind |-> "later", token |-> jwt, at |-> now, attempts |-> 0,
                           fetches |-> 0, response |-> noResponse]
            /\ UNCHANGED lastRefresh
       ELSE \E response \in RefreshResponses :
              LET sent == jwt.refreshToken # 0 IN
              /\ jwt' = refreshAccessToken(jwt, response)
              /\ jwtCall' = [kind |-> "later", token |-> jwt, at |-> now, attempts |-> 1,
                             fetches |-> IF sent THEN 1 ELSE 0,
                             response |-> IF sent THEN response ELSE noResponse]
              /\ lastRefresh' = IF sent /\ response.ok THEN "ok" ELSE "failed"
    /\ UNCHANGED <<now, handler, apc, req, handlerLocals>>
    /\ UNCHANGED <<builderVars, classifierVars, homeVars>>

NextJwt == Tick \/ CallJwtAtSignIn \/ CallJwt

SpecJwt == InitJwt /\ [][NextJwt]_vars

\* ------------------------------------------------- what the claims speak of
RECURSIVE totalDuration(_)
totalDuration(seq) ==
    IF seq = <<>> THEN 0 ELSE Head(seq).duration_ms + totalDuration(Tail(seq))

Returned == pc = "returned"

\* how many leading tracks of a list fit one after another into a budget:
\* the tracks before the first one that would exceed what is left of it
RECURSIVE fitCount(_, _)
fitCount(list, budget) ==
    IF list = <<>> \/ Head(list).duration_ms > budget THEN 0
    ELSE 1 + fitCount(Tail(list), budget - Head(list).duration_ms)

\* the candidates before the first overflow of the call in the current state
GreedyCount == fitCount(sorted, targetDurationMs)

GreedyPrefix == SubSeq(sorted, 1, GreedyCount)

\* some candidate overflows the target
Overflowed == GreedyCount < Len(sorted)

\* the budget left when the first overflow happens
Remaining == targetDurationMs - totalDuration(GreedyPrefix)

EnergyOrdered(seq, st) ==
    \A i, j \in 1..Len(seq) :
        i < j => IF st = "calm" THEN seq[i].energy <= seq[j].energy
                                ELSE seq[i].energy >= seq[j].energy

occurrences(seq, x) == Cardinality({k \in 1..Len(seq) : seq[k] = x})
idOccurrences(seq, id) == Cardinality({k \in 1..Len(seq) : seq[k].id = id})

\* C1: the durations of the returned tracks sum to at most targetDurationMs
\* (tracks with duration_ms >= 0 and targets >= 0).
C1_TotalWithinTarget ==
    Returned => totalDuration(playlist) <= targetDurationMs

\* a call that hit an overflow, took a fallback track and filled the target exactly
C1_Witness ==
    /\ Returned
    /\ Overflowed
    /\ GreedyCount >= 1
    /\ Len(playlist) = GreedyCount + 1
    /\ totalDuration(playlist) = targetDurationMs

\* C3 as stated: no track identifier appears twice in the returned list,
\* whatever the input list is.
C3_NoDuplicateIds ==
    Returned => \A i, j \in 1..Len(playlist) : i < j => playlist[i].id # playlist[j].id

\* C3 amended: a track object, and so a track identifier, appears in the
\* returned list at most as often as in the input list; an input list with
\* pairwise distinct identifiers gives a list without duplicates.
C3_NoMoreOftenThanInInput ==
    Returned =>
        /\ \A k \in 1..Len(playlist) :
              occurrences(playlist, playlist[k]) <= occurrences(songs, playlist[k])
        /\ \A id \in TrackIds : idOccurrences(playlist, id) <= idOccurrences(songs, id)

\* the membership test of the fallback search kept out a track that would
\* have fitted the remaining budget but is already in the list
C3_Witness ==
    /\ Returned
    /\ Overflowed
    /\ \E j \in GreedyCount + 1..Len(sorted) :
          /\ sorted[j].duration_ms <= Remaining
          /\ includes(GreedyPrefix, sorted[j])
          /\ occurrences(playlist, sorted[j]) = 1

\* C4: every returned track is classified as the requested session type.
C4_OnlyRequestedMood ==
    Returned => \A k \in 1..Len(playlist) : classifySong(playlist[k]) = sessionType

\* after an overflow the fallback took a track, although an input track of
\* the other mood comes first in the input and fits the remaining budget
C4_Witness ==
    /\ Returned
    /\ Overflowed
    /\ Len(playlist) = GreedyCount + 1
    /\ classifySong(songs[1]) # sessionType
    /\ songs[1].duration_ms <= Remaining

\* C6: at the first overflow the greedy walk stops: the result is the greedy
\* prefix and at most one more track.
C6_StopsAtFirstOverflow ==
    (Returned /\ Overflowed) =>
        /\ Len(playlist) <= GreedyCount + 1
        /\ SubSeq(playlist, 1, GreedyCount) = GreedyPrefix

\* the call returned after an overflow and its fallback track, and a later
\* candidate that is not in the result would still fit
C6_Witness ==
    /\ Returned
    /\ Overflowed
    /\ Len(playlist) = GreedyCount + 1
    /\ \E j \in GreedyCount + 1..Len(sorted) :
          /\ ~includes(playlist, sorted[j])
          /\ totalDuration(playlist) + sorted[j].duration_ms <= targetDurationMs

\* the three calm tracks of 600000, 900000 and 900000 ms of the scenario
ScenarioTracks ==
    << [ref |-> 1, id |-> 1, duration_ms |-> 600000, tempo |-> 80, energy |-> 1,
        acousticness |-> 2, instrumentalness |-> 1],
       [ref |-> 2, id |-> 2, duration_ms |-> 900000, tempo |-> 80, energy |-> 2,
        acousticness |-> 2, instrumentalness |-> 1],
       [ref |-> 3, id |-> 3, duration_ms |-> 900000, tempo |-> 80, energy |-> 3,
        acousticness |-> 2, instrumentalness |-> 1] >>

C8_ResultOrder ==
    Returned =>
        /\ EnergyOrdered(sorted, sessionType)
        /\ \A x \in {songs[k] : k \in 1..Len(songs)} :
              occurrences(sorted, x) =
                 IF classifySong(x) = sessionType THEN occurrences(songs, x) ELSE 0
        /\ SubSeq(playlist, 1, GreedyCount) = GreedyPrefix
        /\ EnergyOrdered(SubSeq(playlist, 1, GreedyCount), sessionType)
        /\ Len(playlist) > GreedyCount =>
              /\ Len(playlist) = GreedyCount + 1
              /\ \E j \in 1..Len(sorted) : playlist[Len(playlist)] = sorted[j]

\* a building call whose greedy part had to be reordered from the input
\* order, and that ends with a fallback track
C8_Witness ==
    /\ Returned
    /\ sessionType = "building"
    /\ GreedyCount >= 2
    /\ playlist[1].energy > playlist[2].energy
    /\ playlist[1].ref > playlist[2].ref

\* the single matching track of 2000000 ms of the scenario
ScenarioSingle ==
    << [ref |-> 1, id |-> 1, duration_ms |-> 2000000, tempo |-> 120, energy |-> 8,
        acousticness |-> 2, instrumentalness |-> 1] >>

\* C9: the greedy pass takes every candidate, in order, as long as the
\* running total stays within the target; when all filtered tracks together
\* fit, the result is the whole sorted filtered list; a single matching
\* track of 2000000 ms is returned alone for the default target.
C9_GreedyTakesWhileFits ==
    /\ Returned =>
          /\ \A k \in 1..Len(sorted) :
                (\A m \in 1..k : totalDuration(SubSeq(sorted, 1, m)) <= targetDurationMs)
                    => (k <= Len(playlist) /\ playlist[k] = sorted[k])
          /\ totalDuration(SelectSeq(songs, LAMBDA s : classifySong(s) = sessionType))
                <= targetDurationMs => playlist = sorted
    /\ buildPlaylist(ScenarioSingle, "building", defaultTargetDurationMs) = ScenarioSingle

\* all filtered tracks were taken and they fill the target exactly
C9_Witness ==
    /\ Returned
    /\ ~Overflowed
    /\ Len(sorted) >= 2
    /\ playlist = sorted
    /\ Len(sorted) < Len(songs)
    /\ totalDuration(playlist) = targetDurationMs
    /\ targetDurationMs > 0

\* C10: the result is empty when the input is empty, when no input track
\* has the requested mood, and when every track of the requested mood is
\* longer than the target.
C10_EmptyResult ==
    Returned =>
        /\ songs = <<>> => playlist = <<>>
        /\ filteredSongs(songs, sessionType) = <<>> => playlist = <<>>
        /\ (\A k \in 1..Len(songs) :
               classifySong(songs[k]) = sessionType => songs[k].duration_ms > targetDurationMs)
              => playlist = <<>>

\* every track of the requested mood is too long, there are several of
\* them, and a track of the other mood would have fitted
C10_Witness ==
    /\ Returned
    /\ Len(sorted) >= 2
    /\ \A k \in 1..Len(sorted) : sorted[k].duration_ms > targetDurationMs
    /\ \E k \in 1..Len(songs) :
          /\ classifySong(songs[k]) # sessionType
          /\ songs[k].duration_ms <= targetDurationMs
    /\ playlist = <<>>

C12_NoZeroDuration ==
    Returned => \A k \in 1..Len(playlist) : playlist[k].duration_ms > 0

\* C12 amended: duration_ms has no lower bound in buildPlaylist; a candidate
\* with duration_ms = 0 that comes before the first overflow is returned.
C12_ZeroDurationIsTaken ==
    Returned =>
        \A k \in 1..Len(sorted) :
            (k <= GreedyCount /\ sorted[k].duration_ms = 0) => includes(playlist, sorted[k])

\* a track of duration 0 was returned between two tracks of positive duration
C12_Witness ==
    /\ Returned
    /\ Len(playlist) = 3
    /\ playlist[1].duration_ms > 0
    /\ playlist[2].duration_ms = 0
    /\ playlist[3].duration_ms > 0

C19_ResultIsSubsequence ==
    Returned =>
        /\ \A k \in 1..GreedyCount : playlist[k] = sorted[k]
        /\ Len(playlist) > GreedyCount =>
              \E j \in GreedyCount + 2..Len(sorted) :
                  playlist = Append(GreedyPrefix, sorted[j])
        /\ EnergyOrdered(playlist, sessionType)

\* a fallback track was taken whose energy differs from that of the last
\* greedily packed track
C19_Witness ==
    /\ Returned
    /\ GreedyCount >= 1
    /\ Len(playlist) = GreedyCount + 1
    /\ playlist[GreedyCount].energy # playlist[GreedyCount + 1].energy

\* C2: classifySong gives 'calm' exactly when tempo < 100 or energy < 0.5 or
\* acousticness > 0.6 or instrumentalness > 0.5, and 'building' otherwise;
\* the values 100, 0.5, 0.6 and 0.5 themselves are on the 'building' side.
C2_ClassifyThresholds ==
    classifyResult # "none" =>
        LET a == classifyArg
            anyCalmSign == \/ a.tempo < 100
                           \/ a.energy < 5
                           \/ a.acousticness > 6
                           \/ a.instrumentalness > 5
        IN /\ classifyResult \in SessionType
           /\ classifyResult = "calm" <=> anyCalmSign
           /\ a.tempo < 100 => classifyResult = "calm"
           /\ (a.tempo >= 100 /\ a.energy >= 5 /\ a.acousticness <= 6
                 /\ a.instrumentalness <= 5) => classifyResult = "building"

\* a track with every feature on its threshold was classified as building
C2_Witness ==
    /\ classifyResult = "building"
    /\ classifyArg = [tempo |-> 100, energy |-> 5, acousticness |-> 6,
                      instrumentalness |-> 5]

\* the analysed tracks that carry audio features, as SongAnalysis objects
AnalysedSongs ==
    LET withFeatures == SelectSeq(analyzedTracks, LAMBDA t : t.audioFeatures # undefinedFeatures)
    IN [k \in 1..Len(withFeatures) |->
           SongAnalysis(k, withFeatures[k].id, withFeatures[k].duration_ms,
                        withFeatures[k].audioFeatures)]

\* the duration of the analysed track with a given identifier
durationOf(id) ==
    (CHOOSE t \in {analyzedTracks[k] : k \in 1..Len(analyzedTracks)} : t.id = id).duration_ms

RECURSIVE postedDuration(_)
postedDuration(ids) ==
    IF ids = <<>> THEN 0 ELSE durationOf(Head(ids)) + postedDuration(Tail(ids))

\* C5: the identifiers posted to the create-playlist endpoint are those of
\* the playlist that buildPlaylist assembles from the analysed tracks for
\* the 38-minute target, in its order, so that their durations sum to at
\* most 38 minutes.
C5_PostedIsAssembledPlaylist ==
    pending = "create-playlist" =>
        /\ \E st \in SessionType :
              LET built == buildPlaylist(AnalysedSongs, st, defaultTargetDurationMs)
              IN posted = [k \in 1..Len(built) |-> built[k].id]
        /\ postedDuration(posted) <= defaultTargetDurationMs
\* the analysed tracks that came without audioFeatures
withoutFeatures ==
    { analyzedTracks[k].id : k \in { j \in 1..Len(analyzedTracks) :
                                       analyzedTracks[j].audioFeatures = undefinedFeatures } }

\* C15: a track that came without an audio-feature vector is never among
\* the identifiers sent for playlist creation, whatever the session type.
C15_NoFeaturelessTrackPosted ==
    pending = "create-playlist" =>
        \A k \in 1..Len(posted) : posted[k] \notin withoutFeatures

\* a request is on its way that left out a track without audioFeatures
\* standing between two tracks that were selected
C15_Witness ==
    /\ pending = "create-playlist"
    /\ Len(analyzedTracks) = 3
    /\ withoutFeatures = {2}
    /\ posted = <<1, 3>>

\* ---- the API handlers
\* the calls of one api made for the request, in order
callsOf(api) == SelectSeq(calls, LAMBDA c : c.api = api)

RECURSIVE concatenation(_)
concatenation(seqs) ==
    IF seqs = <<>> THEN <<>> ELSE Head(seqs) \o concatenation(Tail(seqs))

\* the request is answered, and this is the status of the answer
Responded(status) == apc = "done" /\ Len(res) = 1 /\ res[1].status = status

\* C13 as stated: the bearer token of every request an API handler sends
\* to the catalog is non-expired at the moment of the request.
C13_SentTokenNotExpired ==
    \A k \in 1..Len(calls) : ~calls[k].expired

\* C14: the addItemsToPlaylist calls carry consecutive batches of at most
\* 100 identifiers, none empty, whose concatenation in call order is the
\* submitted list (each as a track URI); after the 200 response it is the
\* whole list.
C14_BatchesCoverSubmitted ==
    handler = "create-playlist" =>
        LET added == callsOf("playlists.addItemsToPlaylist")
            batches == [k \in 1..Len(added) |-> added[k].arg]
            joined == concatenation(batches)
        IN  /\ \A k \in 1..Len(batches) : Len(batches[k]) >= 1 /\ Len(batches[k]) <= 100
            /\ Len(joined) <= Len(req.tracks)
            /\ \A k \in 1..Len(joined) : joined[k] = <<"spotify:track:", req.tracks[k]>>
            /\ Responded(200) => Len(joined) = Len(req.tracks)

\* a request with 201 tracks was answered 200 after batches of 100, 100 and 1
C14_Witness ==
    /\ handler = "create-playlist"
    /\ Responded(200)
    /\ Len(req.tracks) = 201
    /\ LET added == callsOf("playlists.addItemsToPlaylist")
       IN  /\ Len(added) = 3
           /\ Len(added[1].arg) = 100
           /\ Len(added[2].arg) = 100
           /\ added[3].arg = << <<"spotify:track:", 201>> >>

\* the stages of a request the catalog is called at
CatalogStages ==
    {"pagination", "audio-features", "profile", "createPlaylist", "addItems", "playlists"}

\* C16 as stated: a missing access token gives 401; a failure of a catalog
\* call gives 403 when its message contains 403 and 500 otherwise, at
\* whichever stage it occurs.
C16_StatusByFailureKind ==
    (apc = "done" /\ Len(res) = 1) =>
        /\ (failure = noFailure /\ res[1].status # 405 /\ token.accessToken = 0)
              => res[1].status = 401
        /\ failure.stage \in CatalogStages
              => res[1].status = IF "403" \in failure.message THEN 403 ELSE 500

\* the items of the pages returned so far, in page order
RECURSIVE itemsOf(_)
itemsOf(ps) ==
    IF ps = <<>> THEN <<>> ELSE Head(ps).items \o itemsOf(Tail(ps))

\* a page that ends the loop: empty, or without a next link
lastPage(page) == page.items = <<>> \/ ~page.next

\* C18: the pagination loop asks for the pages at offsets 0, 50, 100, ...
\* one after another, goes on only after a page that is neither empty nor
\* without a next link and stops once such a page came; it has collected
\* the items of the fetched pages in page order; a failed page request is
\* answered 500 without tracks.
C18_Pagination ==
    handler = "source-playlist" =>
        LET asked == callsOf("playlists.getPlaylistItems") IN
        /\ \A k \in 1..Len(asked) : asked[k].arg = <<50, 50 * (k - 1)>>
        /\ Len(asked) = Len(pages) + (IF failure.stage = "pagination" THEN 1 ELSE 0)
        /\ \A k \in 1..Len(pages) - 1 : ~lastPage(pages[k])
        /\ (pages # <<>> /\ lastPage(pages[Len(pages)])) => (~hasMoreTracks /\ apc # "page")
        /\ (apc = "page" /\ pages # <<>>) => ~lastPage(pages[Len(pages)])
        /\ allPlaylistTracks = itemsOf(pages)
        /\ failure.stage = "pagination" =>
              res = <<[status |-> 500, kind |-> "error", tracks |-> <<>>]>>

\* the loop ended after three pages, the last one without a next link, and
\* the handler went on to the audio features
C18_Witness ==
    /\ handler = "source-playlist"
    /\ apc = "features"
    /\ Len(pages) = 3
    /\ Len(pages[3].items) = 2
    /\ Len(allPlaylistTracks) = 5
    /\ Len(callsOf("playlists.getPlaylistItems")) = 3

\* C20: create-playlist calls the catalog only for a POST with an access
\* token, a non-empty name and a non-empty tracks array; it answers the
\* other requests 405, 401 and 400, tested in this order, and sends one
\* response per request.
C20_CreateValidation ==
    handler = "create-playlist" =>
        /\ calls # <<>> =>
              /\ req.method = "POST"
              /\ token.accessToken # 0
              /\ req.name # "" /\ req.tracksIsArray /\ Len(req.tracks) > 0
        /\ Len(res) <= 1
        /\ apc = "done" <=> Len(res) = 1
        /\ (apc = "done" /\ failure = noFailure) =>
              res[1].status = IF req.method # "POST" THEN 405
                              ELSE IF token.accessToken = 0 THEN 401
                              ELSE IF req.name = "" \/ ~req.tracksIsArray \/ Len(req.tracks) = 0
                                   THEN 400
                              ELSE 200

\* a POST without a token and with an empty name was answered 401, and no
\* call was made
C20_Witness ==
    /\ handler = "create-playlist"
    /\ req.method = "POST"
    /\ req.name = ""
    /\ jwt.accessToken = 0
    /\ Responded(401)
    /\ calls = <<>>

\* ---- the jwt callback
\* C21: a later call of the jwt callback returns a token whose expiresAt
\* lies in the future as it is, without a refresh; for an expired token it
\* makes one refresh attempt.  A failed attempt leaves accessToken,
\* refreshToken and expiresAt as they were and sets the error flag; a
\* successful one replaces accessToken and expiresAt, clears the error flag
\* and keeps the old refreshToken when the response carries none.  The
\* error flag is set exactly when the latest attempt failed.
C21_JwtCallback ==
    /\ jwt.error = "RefreshAccessTokenError" <=> lastRefresh = "failed"
    /\ jwtCall.kind = "later" =>
          LET t == jwtCall.token
              r == jwtCall.response
              inFuture == t.expiresAt # 0 /\ jwtCall.at < t.expiresAt
          IN  /\ inFuture => (jwt = t /\ jwtCall.attempts = 0 /\ jwtCall.fetches = 0)
              /\ ~inFuture => (jwtCall.attempts = 1 /\ jwtCall.fetches <= 1)
              /\ (~inFuture /\ lastRefresh = "failed") =>
                    /\ jwt.accessToken = t.accessToken
                    /\ jwt.refreshToken = t.refreshToken
                    /\ jwt.expiresAt = t.expiresAt
                    /\ jwt.error = "RefreshAccessTokenError"
              /\ (~inFuture /\ lastRefresh = "ok") =>
                    /\ jwt.accessToken = jwtCall.at + 1
                    /\ jwt.accessToken # t.accessToken
                    /\ jwt.expiresAt = jwtCall.at + r.expires_in
                    /\ jwt.expiresAt # t.expiresAt
                    /\ jwt.error = "undefined"
                    /\ jwt.refreshToken = IF r.refresh_token # 0 THEN r.refresh_token
                                          ELSE t.refreshToken

\* a refresh succeeded after a failed one, without a new refresh token: the
\* error flag is cleared and the old refresh token kept
C21_Witness ==
    /\ jwtCall.kind = "later"
    /\ jwtCall.token.error = "RefreshAccessTokenError"
    /\ jwtCall.attempts = 1
    /\ lastRefresh = "ok"
    /\ jwtCall.response.refresh_token = 0
    /\ jwt.refreshToken = jwtCall.token.refreshToken
    /\ jwt.error = "undefined"

\* ---- the step machine of Home
\* the message the catch block of the pending request sets
failureMessage ==
    IF pending = "source-playlist"
    THEN "Failed to analyze playlist. Please try again."
    ELSE "Failed to create playlist. Please try again."

\* C22: step goes from 'selectPlaylist' to 'analyze' only in the step that
\* ends a source-playlist request whose response was ok, and from 'analyze'
\* to 'results' only in the step that ends a create-playlist request whose
\* response was ok; a request that ends after a response that was not ok, or
\* ends without advancing, leaves step as it was and sets its error message;
\* and every step that ends a request, fetchPlaylists included, leaves
\* isLoading false.
C22_StepMachine ==
    [][LET ended == pending # "none" /\ pending' = "none"
           playlistsEnded == playlistsPending /\ ~playlistsPending'
       IN /\ (step' = "analyze" /\ step # "analyze") =>
                /\ step = "selectPlaylist"
                /\ ended
                /\ pending = "source-playlist"
                /\ homeResponse = "ok"
          /\ (step' = "results" /\ step # "results") =>
                /\ step = "analyze"
                /\ ended
                /\ pending = "create-playlist"
                /\ homeResponse = "ok"
          /\ (ended /\ homeResponse # "ok") => step' = step
          /\ (ended /\ step' = step) => error' = failureMessage
          /\ playlistsEnded => step' = step
          /\ (ended \/ playlistsEnded) => isLoading' = FALSE]_vars

\* the analysis went through, then a create-playlist request failed: the page
\* is still at 'analyze', shows the message and is no longer loading
C22_Witness ==
    /\ step = "analyze"
    /\ pending = "none"
    /\ error = "Failed to create playlist. Please try again."
    /\ isLoading = FALSE
    /\ analyzedTracks # <<>>

====
